---- MODULE Spec2Model ----
(***************************************************************************)
(* Curve flattening of svgpoly: bezflatten.flatten3 / flatten4 (adaptive   *)
(* de Casteljau subdivision, ported from AGG) and svg2poly.flatten_arc /   *)
(* segment2polyline.                                                       *)
(*                                                                         *)
(* Numbers.  The program works on Python floats (complex points).  Here a  *)
(* coordinate is an integer count of units 1/Scale, Scale a power of two   *)
(* large enough that every midpoint (a + b) / 2 the recursion can form is  *)
(* exact, as it is in binary floating point for inputs of this size.       *)
(* Products that do not fit a machine integer are compared through the     *)
(* digit-sequence arithmetic below, so every comparison of the code is     *)
(* decided exactly.                                                        *)
(***************************************************************************)
EXTENDS Integers, Sequences, FiniteSets, TLC

(* ------------------------------------------------------------------ *)
(* Bounds of the model                                                  *)
(* ------------------------------------------------------------------ *)

\* bezflatten.py:31 sets CURVE_RECURSION_LIMIT = 32; the model explores the
\* same recursion with a smaller cap (a full tree has 2^(limit+2) - 1 calls).
CURVE_RECURSION_LIMIT == 2

\* Control points are drawn from the grid (0..MaxX) x {0, 1}.
MaxX == 1

(* ------------------------------------------------------------------ *)
(* Program constants                                                    *)
(* ------------------------------------------------------------------ *)

\* CURVE_COLLINEARITY_EPSILON = 1e-30.  Cross products are integer counts
\* of units 1/Scale^2 >= 2^-30, so "x > 1e-30" is "x > 0" on these inputs.
CURVE_COLLINEARITY_EPSILON == 0

\* CURVE_ANGLE_TOLERANCE_EPSILON = 0.01, in thousandths of a radian.
CURVE_ANGLE_TOLERANCE_EPSILON == 10

\* Bits of fraction a coordinate carries: three halvings per level of
\* flatten4 (p12 -> p123 -> p1234), levels 0..CURVE_RECURSION_LIMIT.
Scale == 2 ^ (3 * (CURVE_RECURSION_LIMIT + 1))

(* ------------------------------------------------------------------ *)
(* Exact arithmetic on naturals of any size (little-endian digits)      *)
(* ------------------------------------------------------------------ *)

Base == 2 ^ 12

\* Body(v): v is evaluated once, however often Body uses it
With(v, Body(_)) == Body(v)

Abs(x) == IF x < 0 THEN -x ELSE x

RECURSIVE Digits(_)
Digits(n) == IF n = 0 THEN <<>> ELSE <<n % Base>> \o Digits(n \div Base)

RECURSIVE Carry(_, _)
Carry(s, c) ==
    IF s = <<>> THEN Digits(c)
    ELSE LET v == Head(s) + c
         IN  <<v % Base>> \o Carry(Tail(s), v \div Base)

RECURSIVE Strip(_)
Strip(s) ==
    IF s # <<>> /\ s[Len(s)] = 0 THEN Strip(SubSeq(s, 1, Len(s) - 1)) ELSE s

RECURSIVE ConvSum(_, _, _, _)
ConvSum(x, y, k, i) ==
    IF i > Len(x) \/ i > k THEN 0
    ELSE (IF k - i + 1 <= Len(y) THEN x[i] * y[k - i + 1] ELSE 0)
         + ConvSum(x, y, k, i + 1)

BigMul(x, y) ==
    IF x = <<>> \/ y = <<>> THEN <<>>
    ELSE Strip(Carry([k \in 1..(Len(x) + Len(y) - 1) |-> ConvSum(x, y, k, 1)], 0))

RECURSIVE BigLessFrom(_, _, _)
BigLessFrom(x, y, i) ==
    IF i = 0 THEN FALSE
    ELSE IF x[i] # y[i] THEN x[i] < y[i]
    ELSE BigLessFrom(x, y, i - 1)

\* x < y, for stripped digit sequences
BigLess(x, y) ==
    IF Len(x) # Len(y) THEN Len(x) < Len(y) ELSE BigLessFrom(x, y, Len(x))

BigLeq(x, y) == ~BigLess(y, x)

RECURSIVE BigSubFrom(_, _, _, _)
BigSubFrom(x, y, i, borrow) ==
    IF i > Len(x) THEN <<>>
    ELSE LET yi == IF i <= Len(y) THEN y[i] ELSE 0
             v  == x[i] - yi - borrow
         IN  IF v < 0 THEN <<v + Base>> \o BigSubFrom(x, y, i + 1, 1)
             ELSE <<v>> \o BigSubFrom(x, y, i + 1, 0)

\* x - y, for x >= y
BigSub(x, y) == Strip(BigSubFrom(x, y, 1, 0))

\* a * b as a digit sequence, for integers a, b >= 0
Prod(a, b) == BigMul(Digits(a), Digits(b))

BigAdd(x, y) ==
    LET n == IF Len(x) > Len(y) THEN Len(x) ELSE Len(y)
    IN  Carry([i \in 1..n |-> (IF i <= Len(x) THEN x[i] ELSE 0)
                              + (IF i <= Len(y) THEN y[i] ELSE 0)], 0)

RECURSIVE Log2(_)
Log2(n) == IF n < 2 THEN 0 ELSE 1 + Log2(n \div 2)

\* 2^n
BigPow2(n) == [i \in 1..(n \div 12 + 1) |-> IF i = n \div 12 + 1 THEN 2 ^ (n % 12) ELSE 0]

\* number of binary digits of x
BitLen(x) == IF x = <<>> THEN 0 ELSE 12 * (Len(x) - 1) + Log2(x[Len(x)]) + 1

\* x \div 2^n
BigShiftRight(x, n) ==
    LET a == n \div 12
        b == n % 12
    IN  IF Len(x) <= a THEN <<>>
        ELSE Strip([i \in 1..(Len(x) - a) |->
                 (x[a + i] \div (2 ^ b))
                 + (IF a + i + 1 <= Len(x) THEN (x[a + i + 1] % (2 ^ b)) * (2 ^ (12 - b))
                    ELSE 0)])

(* ------------------------------------------------------------------ *)
(* IEEE double arithmetic, where the code's result depends on rounding. *)
(* A positive double is [m, e], the value m * 2^e with m < 2^53 + 1.    *)
(* ------------------------------------------------------------------ *)

\* x (a natural), with a fraction frac in [0, 1) beyond it, rounded to 53
\* significant bits, ties to even: [m, sh] with the rounded value m * 2^sh
RoundAt(x, sh, q, frac) ==
    With(BigSub(x, BigMul(q, BigPow2(sh))), LAMBDA low :
        LET half == BigPow2(sh - 1)
            up   == BigLess(half, low) \/ (low = half /\ (frac \/ q[1] % 2 = 1))
        IN  [m |-> IF up THEN BigAdd(q, <<1>>) ELSE q, sh |-> sh])

Round53(x, frac) ==
    With(BitLen(x) - 53, LAMBDA sh :
        IF sh <= 0 THEN [m |-> x, sh |-> 0]
        ELSE RoundAt(x, sh, BigShiftRight(x, sh), frac))

\* long division of 2^(8 * j) by n, 0 < n < 2^23, eight bits at a step:
\* started with q = 0 and rem = 1 it yields the quotient and the remainder
RECURSIVE DivPow2(_, _, _, _)
DivPow2(j, n, q, rem) ==
    IF j = 0 THEN [q |-> q, rem |-> rem]
    ELSE DivPow2(j - 1, n, BigAdd(BigMul(q, <<256>>), Digits((256 * rem) \div n)),
                 (256 * rem) % n)

\* number of trailing zero bits of n > 0
RECURSIVE Trailing(_)
Trailing(n) == IF n % 2 = 1 THEN 0 ELSE 1 + Trailing(n \div 2)

\* fl(1 / x) for x = o * 2^e, o odd: the quotient 2^(8j) / o, long enough
\* to hold 54 bits, rounded to 53 bits
FlRecipOdd(o, e, j) ==
    With(DivPow2(j, o, <<>>, 1), LAMBDA r :
        With(Round53(r.q, r.rem > 0), LAMBDA v :
            [m |-> v.m, e |-> v.sh - 8 * j - e]))

\* fl(1 / x) for x = n * 2^en, n > 0
FlRecip(n, en) ==
    With(Trailing(n), LAMBDA z :
        FlRecipOdd(n \div (2 ^ z), en + z, (53 + Log2(n \div (2 ^ z)) + 8) \div 8))

\* fl(x * y) for a double x and y = n * 2^en, n >= 0
FlMul(x, n, en) ==
    With(Round53(BigMul(x.m, Digits(n)), FALSE), LAMBDA r :
        [m |-> r.m, e |-> x.e + en + r.sh])

\* x < 1 for a double x
FlBelowOne(x) == x.e < 0 /\ BigLess(x.m, BigPow2(-x.e))

\* fl(a * 2^ea + sign * x) = c * 2^ea, for a double x and naturals a, c
FlSumIs(a, ea, sign, x, c) ==
    LET e == IF x.e < ea THEN x.e ELSE ea
        A == BigMul(Digits(a), BigPow2(ea - e))
        X == BigMul(x.m, BigPow2(x.e - e))
        C == BigMul(Digits(c), BigPow2(ea - e))
        same(r) == BigMul(r.m, BigPow2(r.sh)) = C
    IN  IF sign >= 0 \/ x.m = <<>>
        THEN With(Round53(BigAdd(A, X), FALSE), same)
        ELSE IF BigLess(A, X) THEN FALSE
        ELSE With(Round53(BigSub(A, X), FALSE), same)

(* ------------------------------------------------------------------ *)
(* Points (Python complex numbers): <<real, imag>> in units 1/Scale     *)
(* ------------------------------------------------------------------ *)

Pt(x, y) == <<x * Scale, y * Scale>>

PSub(p, q) == <<p[1] - q[1], p[2] - q[2]>>

\* (p + q) / 2
Mid(p, q) == <<(p[1] + q[1]) \div 2, (p[2] + q[2]) \div 2>>

\* a.real * b.imag - a.imag * b.real
Cross(a, b) == a[1] * b[2] - a[2] * b[1]

Dot(a, b) == a[1] * b[1] + a[2] * b[2]

\* d.real**2 + d.imag**2
Norm2(d) == d[1] * d[1] + d[2] * d[2]

point_sq_distance(p1, p2) == Norm2(PSub(p1, p2))

\* tol_dist is given in halves (0, 0.5, 1.0, ...); tol_dist * tol_dist in
\* units 1/Scale^2
TolDistSq(tol_dist) == ((tol_dist * Scale) \div 2) * ((tol_dist * Scale) \div 2)

\* (mutant) the distance test always passes
DistanceTestAlways(dist, tol_dist, d) == TRUE

\* dist * dist <= tol_dist_sq * (d.real**2 + d.imag**2)
DistanceTest(dist, tol_dist, d) ==
    BigLeq(Prod(dist, dist), Prod(TolDistSq(tol_dist), Norm2(d)))

(* ------------------------------------------------------------------ *)
(* Angles.  tol_angle is in thousandths of a radian.  math.atan2(0, 0)  *)
(* is 0, the direction of (1, 0).  da = |atan2(v) - atan2(u)|, folded   *)
(* to 2*pi - da when >= pi, is the unsigned angle between u and v, and  *)
(* for 0 < tol_angle < pi/2                                             *)
(*     da < tol_angle  <=>  u.v > 0 and cos(da)^2 > cos(tol_angle)^2.   *)
(* cos(tol_angle)^2 is taken to six decimals; no pair of vectors of     *)
(* the model comes that close to the threshold.                         *)
(* ------------------------------------------------------------------ *)

Cos2Den == 10 ^ 6

Cos2Num(tol_angle) ==
    CASE tol_angle = 5   -> 999975
      [] tol_angle = 500 -> 770151

Dir(v) == IF v = <<0, 0>> THEN <<1, 0>> ELSE v

\* abs(atan2(v) - atan2(u)), folded, < tol_angle
AngleLess(u, v, tol_angle) ==
    LET a   == Dir(u)
        b   == Dir(v)
        dot == Dot(a, b)
    IN  /\ tol_angle > 0
        /\ dot > 0
        /\ BigLess(BigMul(Digits(Cos2Num(tol_angle)), Prod(Norm2(a), Norm2(b))),
                   BigMul(Digits(Cos2Den), Prod(dot, dot)))

\* da1 + da2 < tol_angle, da1 the angle between u and v, da2 between v and w:
\* cos(da1 + da2) = (u.v * v.w - |u x v| * |v x w|) / (|u| |v|^2 |w|)
AngleSumLess(u, v, w, tol_angle) ==
    LET a    == Dir(u)
        b    == Dir(v)
        c    == Dir(w)
        dot1 == Dot(a, b)
        dot2 == Dot(b, c)
        pos  == Prod(IF dot1 > 0 THEN dot1 ELSE 0, IF dot2 > 0 THEN dot2 ELSE 0)
        neg  == Prod(Abs(Cross(a, b)), Abs(Cross(b, c)))
    IN  /\ tol_angle > 0
        /\ dot1 > 0
        /\ dot2 > 0
        /\ BigLess(neg, pos)
        /\ With(BigSub(pos, neg), LAMBDA n :
               BigLess(BigMul(BigMul(Digits(Cos2Num(tol_angle)), Prod(Norm2(a), Norm2(c))),
                              BigMul(Digits(Norm2(b)), Digits(Norm2(b)))),
                       BigMul(Digits(Cos2Den), BigMul(n, n))))

(* ------------------------------------------------------------------ *)
(* One invocation of flatten3 / flatten4.  The value is what the call   *)
(* does: op = "return" with the list val, or op = "recurse" with the    *)
(* control points of the two halves.  The other fields record which     *)
(* branch decided and which tests were evaluated.                       *)
(* ------------------------------------------------------------------ *)

Return(val, branch, dt, ae, ap) ==
    [op |-> "return", val |-> val, branch |-> branch, halves |-> <<>>,
     disttest |-> dt, angleeval |-> ae, anglepass |-> ap]

Recurse(halves, branch, dt, ae, ap) ==
    [op |-> "recurse", val |-> <<>>, branch |-> branch, halves |-> halves,
     disttest |-> dt, angleeval |-> ae, anglepass |-> ap]

\* an exception leaves the call
Raise(err) ==
    [op |-> "raise", val |-> <<>>, branch |-> "raise", halves |-> <<>>,
     disttest |-> "none", angleeval |-> FALSE, anglepass |-> FALSE, error |-> err]

\* A coordinate whose square is beyond the largest float (about 1.34e154
\* and more); the model has no coordinate between the grid and Huge.
Huge == 2 ^ 10 * Scale

\* x ** 2 on floats raises OverflowError when the result is out of range
PowOverflows(x) == Abs(x) >= Huge

\* d.real**2 + d.imag**2 raises
NormOverflows(d) == PowOverflows(d[1]) \/ PowOverflows(d[2])

\* level > CURVE_RECURSION_LIMIT
OverLimit(level) == level > CURVE_RECURSION_LIMIT

\* (mutant) the angle test is skipped only for tol_angle = 0
AngleDisabledAtZero(tol_angle) == tol_angle = 0

\* (mutant) the comparison with the epsilon is inverted
AngleDisabledInverted(tol_angle) == tol_angle > CURVE_ANGLE_TOLERANCE_EPSILON

\* tol_angle < CURVE_ANGLE_TOLERANCE_EPSILON
AngleDisabled(tol_angle) == tol_angle < CURVE_ANGLE_TOLERANCE_EPSILON

\* (mutant) a zero distance counts as significant
SignificantOrZero(dist) == dist >= CURVE_COLLINEARITY_EPSILON

\* dist > CURVE_COLLINEARITY_EPSILON
Significant(dist) == dist > CURVE_COLLINEARITY_EPSILON

\* The collinear stopping metric of one control point p against the chord
\* p1 -> pend (d = pend - p1, d # 0), u the projection parameter of p as
\* the code computes it: "inside" when 0 < u < 1, else the squared
\* distance to the nearer endpoint.  (flatten3 divides directly; the
\* quotient is on the same side of 0 and 1 as the exact parameter.)
Projection(p, p1, pend, d) ==
    LET num == Dot(PSub(p, p1), d)
        da  == Norm2(d)
    IN  IF 0 < num /\ num < da
        THEN [inside |-> TRUE, dist |-> 0]
        ELSE IF num <= 0 THEN [inside |-> FALSE, dist |-> point_sq_distance(p, p1)]
        ELSE [inside |-> FALSE, dist |-> point_sq_distance(p, pend)]

\* log2 of Scale
ScaleBits == 3 * (CURVE_RECURSION_LIMIT + 1)

\* flatten4's projection of the control point p onto the chord from p1
\* (d = p4 - p1, |d|^2 # 0):
\*     k = 1 / k;  d2 = k * (da1*d.real + da2*d.imag)
\* are two rounded operations (kinv is the rounded 1 / k), so a parameter
\* that is exactly 1 can come out as 1 - 2^-53.  Any other parameter is on
\* the same side of 0 and 1 as its exact value.  The value says where the
\* code finds the parameter: "le0" (<= 0), "inside" (0 < . < 1), "ge1".
Param4(p, p1, d, kinv) ==
    LET num == Dot(PSub(p, p1), d)
        da  == Norm2(d)
    IN  IF num <= 0 THEN "le0"
        ELSE IF num < da THEN "inside"
        ELSE IF num > da THEN "ge1"
        ELSE IF FlBelowOne(FlMul(kinv, num, -2 * ScaleBits)) THEN "inside" ELSE "ge1"

\* Twice the squared distance flatten4 then stores for p:
\*     <= 0: point_sq_distance(p, p1);  >= 1: point_sq_distance(p, p4);
\*     else: point_sq_distance(p, p1 + d2 * d)
\* In the last case p is on the chord, and the point p1 + d2 * d computed in
\* doubles is p itself or misses it by a rounding error; 1 stands for the
\* squared size of that error (some 1e-32, far below 1/Scale^2).
Dist4(p, p1, pend, d, kinv, param) ==
    LET sgn(x) == IF x < 0 THEN -1 ELSE 1
        hit(u, i) == FlSumIs(p1[i], -ScaleBits, sgn(d[i]),
                             FlMul(u, Abs(d[i]), -ScaleBits), p[i])
    IN  IF param = "le0" THEN 2 * point_sq_distance(p, p1)
        ELSE IF param = "ge1" THEN 2 * point_sq_distance(p, pend)
        ELSE With(FlMul(kinv, Abs(Dot(PSub(p, p1), d)), -2 * ScaleBits), LAMBDA u :
                 IF hit(u, 1) /\ hit(u, 2) THEN 0 ELSE 1)

\* case 0 of flatten4 for a chord d # 0, kinv the rounded 1 / |d|^2 and
\* u2, u3 the places of the parameters of p2 and p3
Case0(p1, p2, p3, p4, d, tol_dist_sq, halves, kinv, u2, u3) ==
    IF u2 = "inside" /\ u3 = "inside"
    \* Simple collinear case, 1---2---3---4
    THEN Return(<<>>, "case0", "none", FALSE, FALSE)
    ELSE With(<<Dist4(p2, p1, p4, d, kinv, u2), Dist4(p3, p1, p4, d, kinv, u3)>>, LAMBDA e :
             IF e[1] > e[2] THEN
                 IF e[1] < 2 * tol_dist_sq
                 THEN Return(<<p2>>, "case0", "none", FALSE, FALSE)
                 ELSE Recurse(halves, "case0", "none", FALSE, FALSE)
             ELSE IF e[2] < 2 * tol_dist_sq
                 THEN Return(<<p3>>, "case0", "none", FALSE, FALSE)
                 ELSE Recurse(halves, "case0", "none", FALSE, FALSE))

flatten3(p1, p2, p3, tol_dist, tol_angle, level) ==
    LET tol_dist_sq == TolDistSq(tol_dist)
        p12  == Mid(p1, p2)
        p23  == Mid(p2, p3)
        p123 == Mid(p12, p23)
        d    == PSub(p3, p1)
        dist == Abs(Cross(PSub(p2, p3), d))
        halves == << <<p1, p12, p123>>, <<p123, p23, p3>> >>
    IN  IF OverLimit(level) THEN Return(<<>>, "limit", "none", FALSE, FALSE)
        ELSE IF NormOverflows(d) THEN Raise("OverflowError")
        ELSE IF Significant(dist) THEN
            \* Regular case
            IF DistanceTest(dist, tol_dist, d) THEN
                IF AngleDisabled(tol_angle)
                THEN Return(<<p123>>, "regular", "pass", FALSE, FALSE)
                ELSE IF AngleLess(PSub(p2, p1), PSub(p3, p2), tol_angle)
                THEN Return(<<p123>>, "regular", "pass", TRUE, TRUE)
                ELSE Recurse(halves, "regular", "pass", TRUE, FALSE)
            ELSE Recurse(halves, "regular", "fail", FALSE, FALSE)
        ELSE
            \* Collinear case
            LET da == Norm2(d)
                pr == IF da = 0
                      THEN [inside |-> FALSE, dist |-> point_sq_distance(p1, p2)]
                      ELSE Projection(p2, p1, p3, d)
            IN  IF pr.inside THEN Return(<<>>, "collinear", "none", FALSE, FALSE)
                ELSE IF pr.dist < tol_dist_sq
                THEN Return(<<p2>>, "collinear", "none", FALSE, FALSE)
                ELSE Recurse(halves, "collinear", "none", FALSE, FALSE)

\* (mutant) cases 1 and 2 return the midpoint when the angle test passes
TwoPointsAsMid(p2, p3) == <<Mid(p2, p3)>>

\* return [p2, p3]
TwoPoints(p2, p3) == <<p2, p3>>

flatten4(p1, p2, p3, p4, tol_dist, tol_angle, level) ==
    LET tol_dist_sq == TolDistSq(tol_dist)
        p12   == Mid(p1, p2)
        p23   == Mid(p2, p3)
        p34   == Mid(p3, p4)
        p123  == Mid(p12, p23)
        p234  == Mid(p23, p34)
        p1234 == Mid(p123, p234)
        d     == PSub(p4, p1)
        d2    == Abs(Cross(PSub(p2, p4), d))
        d3    == Abs(Cross(PSub(p3, p4), d))
        case  == (IF Significant(d2) THEN 2 ELSE 0) + (IF Significant(d3) THEN 1 ELSE 0)
        halves == << <<p1, p12, p123, p1234>>, <<p1234, p234, p34, p4>> >>
    IN  IF OverLimit(level) THEN Return(<<>>, "limit", "none", FALSE, FALSE)
        ELSE IF NormOverflows(d) THEN Raise("OverflowError")
        ELSE IF case = 0 THEN
            \* All collinear OR p1==p4
            LET k == Norm2(d)
            IN  IF k = 0 THEN
                    LET e2 == point_sq_distance(p1, p2)
                        e3 == point_sq_distance(p4, p3)
                    IN  IF e2 > e3 THEN
                            IF e2 < tol_dist_sq
                            THEN Return(<<p2>>, "case0", "none", FALSE, FALSE)
                            ELSE Recurse(halves, "case0", "none", FALSE, FALSE)
                        ELSE IF e3 < tol_dist_sq
                            THEN Return(<<p3>>, "case0", "none", FALSE, FALSE)
                            ELSE Recurse(halves, "case0", "none", FALSE, FALSE)
                ELSE With(FlRecip(k, -2 * ScaleBits), LAMBDA kinv :
                         Case0(p1, p2, p3, p4, d, tol_dist_sq, halves, kinv,
                               Param4(p2, p1, d, kinv), Param4(p3, p1, d, kinv)))
        ELSE IF case = 1 THEN
            \* p1,p2,p4 are collinear, p3 is significant
            IF DistanceTest(d3, tol_dist, d) THEN
                IF AngleDisabled(tol_angle)
                THEN Return(<<p23>>, "case1", "pass", FALSE, FALSE)
                ELSE IF AngleLess(PSub(p3, p2), PSub(p4, p3), tol_angle)
                THEN Return(TwoPoints(p2, p3), "case1", "pass", TRUE, TRUE)
                ELSE Recurse(halves, "case1", "pass", TRUE, FALSE)
            ELSE Recurse(halves, "case1", "fail", FALSE, FALSE)
        ELSE IF case = 2 THEN
            \* p1,p3,p4 are collinear, p2 is significant
            IF DistanceTest(d2, tol_dist, d) THEN
                IF AngleDisabled(tol_angle)
                THEN Return(<<p23>>, "case2", "pass", FALSE, FALSE)
                ELSE IF AngleLess(PSub(p2, p1), PSub(p3, p2), tol_angle)
                THEN Return(TwoPoints(p2, p3), "case2", "pass", TRUE, TRUE)
                ELSE Recurse(halves, "case2", "pass", TRUE, FALSE)
            ELSE Recurse(halves, "case2", "fail", FALSE, FALSE)
        ELSE
            \* Regular case
            IF DistanceTest(d2 + d3, tol_dist, d) THEN
                IF AngleDisabled(tol_angle)
                THEN Return(<<p23>>, "case3", "pass", FALSE, FALSE)
                ELSE IF AngleSumLess(PSub(p2, p1), PSub(p3, p2), PSub(p4, p3), tol_angle)
                THEN Return(<<p23>>, "case3", "pass", TRUE, TRUE)
                ELSE Recurse(halves, "case3", "pass", TRUE, FALSE)
            ELSE Recurse(halves, "case3", "fail", FALSE, FALSE)

(* ------------------------------------------------------------------ *)
(* svg2poly.flatten_arc.  An Arc is seen through its evaluator          *)
(* arc.point(t) (svgpathtools, outside this repository): the model      *)
(* holds the points of the arc at t = k / (Len - 1), in thousandths of  *)
(* a unit, and follows the bisection as far as these samples go.        *)
(* ------------------------------------------------------------------ *)

\* half circle of radius 1 about the origin, from (1, 0) over (0, 1) to (-1, 0)
HalfCircle ==
    << <<1000, 0>>, <<924, 383>>, <<707, 707>>, <<383, 924>>, <<0, 1000>>,
       <<-383, 924>>, <<-707, 707>>, <<-924, 383>>, <<-1000, 0>> >>

\* quarter circle of radius 2 about the origin, from (2, 0) to (0, 2)
QuarterCircle ==
    << <<2000, 0>>, <<1962, 390>>, <<1848, 765>>, <<1663, 1111>>, <<1414, 1414>>,
       <<1111, 1663>>, <<765, 1848>>, <<390, 1962>>, <<0, 2000>> >>

\* an arc of radius zero: point(t) is the same point for every t
PointArc == [k \in 1..9 |-> <<1000, 1000>>]

\* arc.point(t), t = k / (Len(arc) - 1)
ArcPoint(arc, k) == arc[k + 1]

ArcOne(arc) == Len(arc) - 1

\* (mutant) the distance of the midpoint from the chord is taken as 0
ArcWithinAlways(num, len2, tol) == TRUE

\* dist <= tol_dist for dist = num / abs(p2 - p1), len2 = abs(p2 - p1)^2 # 0
ArcWithin(num, len2, tol) == BigLeq(Prod(num, num), Prod(tol * tol, len2))

flatten_arc(arc, tol_dist, t0, t1) ==
    LET p1   == ArcPoint(arc, t0)
        p2   == ArcPoint(arc, t1)
        tmid == (t0 + t1) \div 2
        pmid == ArcPoint(arc, tmid)
        pvec == PSub(p2, p1)
        num  == Abs(pvec[2] * pmid[1] - pvec[1] * pmid[2]
                    + p2[1] * p1[2] - p1[1] * p2[2])
        len2 == Norm2(pvec)
        \* tol_dist in halves of a unit, coordinates in thousandths
        tol  == tol_dist * 500
    IN  IF len2 = 0
        THEN [op |-> "raise", val |-> <<>>, halves |-> <<>>, tmid |-> tmid]
        ELSE IF ArcWithin(num, len2, tol)
        THEN [op |-> "return", val |-> <<pmid>>, halves |-> <<>>, tmid |-> tmid]
        ELSE [op |-> "recurse", val |-> <<>>, halves |-> <<>>, tmid |-> tmid]

(* ------------------------------------------------------------------ *)
(* State                                                                *)
(* ------------------------------------------------------------------ *)

VARIABLES
    segment,    \* the segment given to segment2polyline: [kind, pts]
    tol_dist,   \* in halves of a unit
    tol_angle,  \* <<tol_angle of the first call, of the second call>>
    run,        \* which of the two calls of segment2polyline is under way
    pc,         \* "call", "flatten3", "flatten4", "flatten_arc", "done",
                \* "raised" (an exception left segment2polyline), "horizon"
    stack,      \* the call stack of the flattener, outermost first
    result,     \* <<polyline of the first call, of the second call>>
    calls,      \* <<invocations of the flattener in the first call, second>>
    seen,       \* per call, what its invocations did (see Note)
    error       \* the exception raised, "" when none

vars == <<segment, tol_dist, tol_angle, run, pc, stack, result, calls, seen, error>>

\* A list element: the point, and the parameter interval [lo, hi] of the
\* invocation that produced it (in units 1 / One of the whole curve).
El(p, lo, hi) == [pt |-> p, lo |-> lo, hi |-> hi]

Points(list) == [i \in 1..Len(list) |-> list[i].pt]

\* the parameter interval of a top-level call is [0, BezOne]
BezOne == 2 ^ (CURVE_RECURSION_LIMIT + 1)

One(seg) == IF seg.kind = "Arc" THEN ArcOne(seg.pts) ELSE BezOne

Frame(pts, level, lo, hi) ==
    [pts |-> pts, level |-> level, lo |-> lo, hi |-> hi,
     phase |-> "enter", halves |-> <<>>, left |-> <<>>]

\* (mutant) the halves are concatenated in the wrong order
ConcatSwapped(first, second) == second \o first

\* first + second of "return (flatten(first half) + flatten(second half))"
Concat(first, second) == first \o second

\* (mutant) the recursive calls are made at the caller's level
NextLevelSame(level) == level

\* the level passed to the recursive calls
NextLevel(level) == level + 1

\* (mutant) the start point is left out
AssembleNoStart(seg, interior) ==
    interior \o <<El(seg.pts[Len(seg.pts)], One(seg), One(seg))>>

\* [segment.start] + interior + [segment.end]
Assemble(seg, interior) ==
    <<El(seg.pts[1], 0, 0)>> \o interior
        \o <<El(seg.pts[Len(seg.pts)], One(seg), One(seg))>>

\* The callee returned the list r: hand it to the caller on top of stk.  A
\* caller waiting for its first half goes on to call the second half; one
\* waiting for the second half returns the concatenation to its own caller.
RECURSIVE Unwind(_, _)
Unwind(stk, r) ==
    IF stk = <<>> THEN [stack |-> <<>>, returned |-> TRUE, val |-> r]
    ELSE LET f    == stk[Len(stk)]
             rest == SubSeq(stk, 1, Len(stk) - 1)
             mid  == (f.lo + f.hi) \div 2
         IN  IF f.phase = "left"
             THEN [stack |-> rest \o <<[f EXCEPT !.phase = "right", !.left = r],
                                       Frame(f.halves[2], NextLevel(f.level), mid, f.hi)>>,
                   returned |-> FALSE, val |-> <<>>]
             ELSE Unwind(rest, Concat(f.left, r))

\* the caller on top of stk calls its first half
Descend(stk, halves) ==
    LET f    == stk[Len(stk)]
        rest == SubSeq(stk, 1, Len(stk) - 1)
        mid  == (f.lo + f.hi) \div 2
    IN  rest \o <<[f EXCEPT !.phase = "left", !.halves = halves],
                  Frame(halves[1], NextLevel(f.level), f.lo, mid)>>

Top == stack[Len(stack)]

\* no invocation yet
NoCall == [pts |-> <<>>, level |-> 0, op |-> "none", val |-> <<>>]

NoSeen == [angleeval |-> FALSE, distfail |-> FALSE, mismatch |-> FALSE, maxlevel |-> 0,
           last |-> NoCall]

\* Note: seen[run] records whether some invocation evaluated the angle
\* test, whether one failed the distance test, whether a non-collinear
\* one returned without passing the distance test or subdivided although
\* it passed, the deepest level entered, and the last invocation of
\* flatten3 / flatten4: its control points, its level and what it did.
Observe(s, c, level) ==
    [angleeval |-> s.angleeval \/ c.angleeval,
     distfail  |-> s.distfail \/ c.disttest = "fail",
     mismatch  |-> s.mismatch \/ (/\ c.branch \in {"regular", "case1", "case2", "case3"}
                                  /\ (c.op = "return") # (c.disttest = "pass")),
     maxlevel  |-> IF level > s.maxlevel THEN level ELSE s.maxlevel,
     last      |-> s.last]

(* ------------------------------------------------------------------ *)
(* Inputs                                                               *)
(* ------------------------------------------------------------------ *)

Grid == {Pt(x, y) : x \in 0..MaxX, y \in {0, 1}}

Lines == {[kind |-> "Line", pts |-> <<a, b>>] : a \in Grid, b \in Grid}
            \cup {[kind |-> "Line", pts |-> <<Pt(0, 0), Pt(10, 0)>>]}

Quadratics == {[kind |-> "QuadraticBezier", pts |-> <<a, b, c>>] :
                   a \in Grid, b \in Grid, c \in Grid}
            \cup {[kind |-> "QuadraticBezier", pts |-> <<Pt(0, 0), Pt(1, 0), Pt(2, 0)>>],
                  [kind |-> "QuadraticBezier", pts |-> <<Pt(0, 0), Pt(2, 0), Pt(1, 0)>>],
                  [kind |-> "QuadraticBezier", pts |-> <<Pt(0, 0), Pt(0, 0), <<Huge, 0>> >>]}

Cubics == {[kind |-> "CubicBezier", pts |-> <<a, b, c, e>>] :
               a \in Grid, b \in Grid, c \in Grid, e \in Grid}
            \cup {[kind |-> "CubicBezier", pts |-> <<Pt(5, 5), Pt(5, 5), Pt(5, 5), Pt(5, 5)>>],
                  [kind |-> "CubicBezier", pts |-> <<Pt(0, 0), Pt(1, 0), Pt(2, 0), Pt(3, 0)>>],
                  [kind |-> "CubicBezier", pts |-> <<Pt(0, 0), Pt(0, 1), Pt(1, 1), <<0, Huge>> >>]}

Arcs == {[kind |-> "Arc", pts |-> a] : a \in {HalfCircle, QuarterCircle, PointArc}}

\* any object that is none of the four svgpathtools segment classes
Others == {[kind |-> "Path", pts |-> <<Pt(0, 0), Pt(1, 0)>>]}

Segments == Lines \cup Quadratics \cup Cubics \cup Arcs \cup Others

\* 0, 0.5 (the default of svg2linesegments) and 1 (the default of flatten3)
TolDists == {0, 1, 2}

\* 0 (the default), 0.005 and 0.5 radians
TolAngles == {<<0, 5>>, <<0, 500>>}

Init ==
    /\ segment \in Segments
    /\ tol_dist \in TolDists
    /\ tol_angle \in TolAngles
    /\ run = 1
    /\ pc = "call"
    /\ stack = <<>>
    /\ result = <<<<>>, <<>>>>
    /\ calls = <<0, 0>>
    /\ seen = <<NoSeen, NoSeen>>
    /\ error = ""

(* ------------------------------------------------------------------ *)
(* Operations                                                           *)
(* ------------------------------------------------------------------ *)

\* segment2polyline returned the polyline: the next call, or the end
Returned(polyline) ==
    /\ result' = [result EXCEPT ![run] = polyline]
    /\ stack' = <<>>
    /\ IF run = 1 THEN run' = 2 /\ pc' = "call" ELSE run' = run /\ pc' = "done"

\* the flattener on top of the stack returned val
FlattenerReturns(val) ==
    With(Unwind(SubSeq(stack, 1, Len(stack) - 1), val), LAMBDA u :
        IF u.returned
        THEN Returned(Assemble(segment, u.val))
        ELSE /\ stack' = u.stack
             /\ UNCHANGED <<result, run, pc>>)

\* (mutant) an unknown segment is skipped: an empty polyline is returned
UnknownSegmentIgnored == Returned(<<>>) /\ UNCHANGED error

\* raise ValueError('unknown segment: %r' % segment)
UnknownSegment ==
    /\ pc' = "raised"
    /\ error' = "ValueError: unknown segment"
    /\ UNCHANGED <<result, run, stack>>

\* segment2polyline(segment, tol_dist, tol_angle): the dispatch
Segment2Polyline ==
    /\ pc = "call"
    /\ UNCHANGED <<segment, tol_dist, tol_angle, calls, seen>>
    /\ IF segment.kind = "Line"
       THEN Returned(<<El(segment.pts[1], 0, 0), El(segment.pts[2], BezOne, BezOne)>>)
            /\ UNCHANGED error
       ELSE IF segment.kind \in {"QuadraticBezier", "CubicBezier", "Arc"}
       THEN /\ stack' = <<Frame(IF segment.kind = "Arc" THEN <<>> ELSE segment.pts,
                                0, 0, One(segment))>>
            /\ pc' = CASE segment.kind = "QuadraticBezier" -> "flatten3"
                       [] segment.kind = "CubicBezier" -> "flatten4"
                       [] segment.kind = "Arc" -> "flatten_arc"
            /\ UNCHANGED <<result, run, error>>
       ELSE UnknownSegment

\* the invocation f of flatten3 / flatten4 does c: it raises, it returns
\* c.val to its caller, or it calls itself on the first half
Invocation(f, c) ==
    /\ calls' = [calls EXCEPT ![run] = @ + 1]
    /\ seen' = [seen EXCEPT ![run] = [Observe(@, c, f.level) EXCEPT !.last =
                    [pts |-> f.pts, level |-> f.level, op |-> c.op, val |-> c.val]]]
    /\ IF c.op = "raise"
       THEN /\ pc' = "raised"
            /\ error' = c.error
            /\ UNCHANGED <<stack, result, run>>
       ELSE /\ UNCHANGED error
            /\ IF c.op = "return"
               THEN FlattenerReturns([i \in 1..Len(c.val) |-> El(c.val[i], f.lo, f.hi)])
               ELSE /\ stack' = Descend(stack, c.halves)
                    /\ UNCHANGED <<result, run, pc>>

\* one invocation of flatten3, from its entry to its return or to its
\* first recursive call
Flatten3 ==
    /\ pc = "flatten3"
    /\ LET f == Top
       IN  With(flatten3(f.pts[1], f.pts[2], f.pts[3], tol_dist, tol_angle[run], f.level),
                LAMBDA c : Invocation(f, c))
    /\ UNCHANGED <<segment, tol_dist, tol_angle>>

Flatten4 ==
    /\ pc = "flatten4"
    /\ LET f == Top
       IN  With(flatten4(f.pts[1], f.pts[2], f.pts[3], f.pts[4],
                         tol_dist, tol_angle[run], f.level),
                LAMBDA c : Invocation(f, c))
    /\ UNCHANGED <<segment, tol_dist, tol_angle>>

ArcInvocation(f, c) ==
    /\ calls' = [calls EXCEPT ![run] = @ + 1]
    /\ seen' = [seen EXCEPT ![run].maxlevel = IF f.level > @ THEN f.level ELSE @]
    /\ IF c.op = "raise"
       THEN /\ pc' = "raised"
            /\ error' = "ZeroDivisionError"
            /\ UNCHANGED <<stack, result, run>>
       ELSE /\ UNCHANGED error
            /\ IF c.op = "return"
               THEN FlattenerReturns([i \in 1..Len(c.val) |-> El(c.val[i], f.lo, f.hi)])
               ELSE /\ stack' = Descend(stack, <<<<>>, <<>>>>)
                    /\ UNCHANGED <<result, run, pc>>

\* one invocation of flatten_arc; the model stops at a subrange whose
\* midpoint lies between its samples of the arc
FlattenArc ==
    /\ pc = "flatten_arc"
    /\ LET f == Top
       IN  IF f.hi - f.lo < 2
           THEN /\ pc' = "horizon"
                /\ UNCHANGED <<stack, result, run, calls, seen, error>>
           ELSE With(flatten_arc(segment.pts, tol_dist, f.lo, f.hi),
                     LAMBDA c : ArcInvocation(f, c))
    /\ UNCHANGED <<segment, tol_dist, tol_angle>>

Next == Segment2Polyline \/ Flatten3 \/ Flatten4 \/ FlattenArc

Spec == Init /\ [][Next]_vars

(* ------------------------------------------------------------------ *)
(* Properties                                                           *)
(* ------------------------------------------------------------------ *)

Bezier == segment.kind \in {"QuadraticBezier", "CubicBezier"}

Supported == segment.kind \in {"Line", "QuadraticBezier", "CubicBezier", "Arc"}

\* the calls of segment2polyline that have returned
ReturnedRuns == {r \in 1..2 : r < run \/ pc = "done"}

Start == segment.pts[1]

End == segment.pts[Len(segment.pts)]

\* the list the flattener returned to segment2polyline in call r
Interior(r) == SubSeq(Points(result[r]), 2, Len(result[r]) - 1)

\* a full binary tree of calls at levels 0 .. CURVE_RECURSION_LIMIT + 1
MaxCalls == 2 ^ (CURVE_RECURSION_LIMIT + 2) - 1

Coincident55 ==
    [kind |-> "CubicBezier", pts |-> <<Pt(5, 5), Pt(5, 5), Pt(5, 5), Pt(5, 5)>>]

\* C1 (as claimed): for every input a top-level flatten3 / flatten4 call
\* terminates and returns a list without raising an error: no exception
\* leaves a call, the call at depth i of the stack runs at level i - 1
\* (each recursive call is made at level + 1), no call is made above level
\* CURVE_RECURSION_LIMIT + 1, a call at that level never subdivides, and
\* the number of invocations is bounded.
C1_TerminatesWithoutError ==
    Bezier =>
        /\ pc \in {"call", "flatten3", "flatten4", "done"}
        /\ error = ""
        /\ \A i \in 1..Len(stack) :
              /\ stack[i].level = i - 1
              /\ stack[i].level <= CURVE_RECURSION_LIMIT + 1
              /\ stack[i].level > CURVE_RECURSION_LIMIT => stack[i].phase = "enter"
        /\ pc \in {"flatten3", "flatten4"} => stack # <<>> /\ Top.phase = "enter"
        /\ \A r \in 1..2 : calls[r] <= MaxCalls

\* C2: for every supported segment kind the polyline segment2polyline
\* returns starts with exactly segment.start and ends with exactly
\* segment.end, and for a Line it is exactly [start, end], whatever the
\* tolerances.
C2_EndpointFidelity ==
    \A r \in ReturnedRuns :
        Supported =>
            /\ Len(result[r]) >= 2
            /\ result[r][1].pt = Start
            /\ result[r][Len(result[r])].pt = End
            /\ segment.kind = "Line" => Points(result[r]) = <<Start, End>>

\* C2 witness: a curve was flattened to a polyline with interior points
C2_Witness ==
    /\ pc = "done"
    /\ segment.kind = "CubicBezier"
    /\ Len(result[1]) > 2
    /\ tol_dist > 0

\* C3 (as claimed): no point of the list flatten3 / flatten4 returns equals
\* the curve's own start point or end point, degenerate inputs included.
C3_InteriorExcludesEndpoints ==
    \A r \in ReturnedRuns :
        Bezier => \A i \in 1..Len(Interior(r)) : Interior(r)[i] \notin {Start, End}

\* all control points of the segment on one line (exactly)
Collinear ==
    \A i \in 2..Len(segment.pts) :
        Cross(PSub(segment.pts[i], Start), PSub(End, Start)) = 0
        /\ (End = Start => Cross(PSub(segment.pts[i], Start),
                                 PSub(segment.pts[2], Start)) = 0)

\* every inner control point projects strictly between the endpoints
StrictlyBetween ==
    \A i \in 2..(Len(segment.pts) - 1) :
        /\ 0 < Dot(PSub(segment.pts[i], Start), PSub(End, Start))
        /\ Dot(PSub(segment.pts[i], Start), PSub(End, Start)) < Norm2(PSub(End, Start))

\* C4 (as claimed): a quadratic or cubic whose control points are exactly
\* collinear, in any arrangement along the line, flattens to an empty
\* interior.
C4_CollinearAnyArrangement ==
    \A r \in ReturnedRuns : Bezier /\ Collinear => Interior(r) = <<>>

\* C4 (amended): a quadratic or cubic whose control points are exactly
\* collinear with every inner control point strictly between the two
\* endpoints (1---2---3, 1---2---3---4) flattens to an empty interior, in
\* a single invocation, for every tol_dist >= 0.
C4_CollinearBetween ==
    \A r \in ReturnedRuns :
        Bezier /\ Collinear /\ StrictlyBetween => Interior(r) = <<>> /\ calls[r] = 1

\* C4 witness: flatten3((0,0), (1,0), (2,0)) has returned
C4_Witness ==
    /\ pc = "done"
    /\ segment = [kind |-> "QuadraticBezier", pts |-> <<Pt(0, 0), Pt(1, 0), Pt(2, 0)>>]
    /\ Interior(1) = <<>>

\* C5 (as claimed): the cubic with p1 = p2 = p3 = p4 = (5,5) flattens to
\* exactly [(5,5), (5,5)] for every tol_dist >= 0.
C5_CoincidentTwoPoints ==
    \A r \in ReturnedRuns :
        segment = Coincident55 => Points(result[r]) = <<Pt(5, 5), Pt(5, 5)>>

\* C6 (as claimed): one top-level call causes at most
\* 2^CURVE_RECURSION_LIMIT invocations of flatten4.
C6_CallsWithinTwoToLimit ==
    \A r \in 1..2 :
        segment.kind = "CubicBezier" => calls[r] <= 2 ^ CURVE_RECURSION_LIMIT

\* C6 (amended): one top-level call causes at most
\* 2^(CURVE_RECURSION_LIMIT + 2) - 1 invocations of flatten4 (2^34 - 1 for
\* the limit 32): the calls at levels 0 .. limit can all subdivide, and
\* the calls at level limit + 1 return at once.
C6_CallsWithinFullTree ==
    \A r \in 1..2 : segment.kind = "CubicBezier" => calls[r] <= MaxCalls

\* C6 witness: the all-coincident cubic with tol_dist = 0 makes every call
\* of the full tree
C6_Witness ==
    /\ pc = "done"
    /\ segment = Coincident55
    /\ tol_dist = 0
    /\ calls[1] = MaxCalls

\* C7: for a segment that is none of Line, QuadraticBezier, CubicBezier,
\* Arc, segment2polyline raises ValueError('unknown segment') and returns
\* no polyline: no flattener is entered and no result, empty or partial,
\* is ever produced.
C7_UnknownSegmentRaises ==
    ~Supported =>
        /\ pc \in {"call", "raised"}
        /\ pc = "raised" => error = "ValueError: unknown segment"
        /\ result = <<<<>>, <<>>>>
        /\ stack = <<>>
        /\ run = 1

\* C7 witness: segment2polyline was called with an unknown segment
C7_Witness == ~Supported /\ pc = "raised"

\* C8: with tol_angle below CURVE_ANGLE_TOLERANCE_EPSILON (0 and 0.005
\* here) no invocation evaluates the angle test, every non-collinear
\* invocation returns exactly when the distance test passes, and two calls
\* with the same control points and tol_dist return the same list for any
\* two such tol_angle.
C8_AngleDisabledBelowEpsilon ==
    /\ \A r \in 1..2 :
          tol_angle[r] < CURVE_ANGLE_TOLERANCE_EPSILON =>
              ~seen[r].angleeval /\ ~seen[r].mismatch
    /\ (pc = "done" /\ Bezier
            /\ tol_angle[1] < CURVE_ANGLE_TOLERANCE_EPSILON
            /\ tol_angle[2] < CURVE_ANGLE_TOLERANCE_EPSILON)
          => result[1] = result[2] /\ calls[1] = calls[2]

\* C8 witness: two calls with tol_angle 0 and 0.005 returned a list of
\* midpoints after subdividing
C8_Witness ==
    /\ pc = "done"
    /\ Bezier
    /\ tol_angle = <<0, 5>>
    /\ Len(result[2]) > 3
    /\ calls[2] > 1
    /\ tol_dist > 0

\* C9 (as claimed): with the same control points and tol_dist, the calls
\* with tol_angle = 0 and tol_angle = 0.5 return different numbers of
\* vertices only if some invocation visited fails the distance test.
C9_DiffersOnlyIfDistanceFails ==
    (pc = "done" /\ Bezier /\ tol_angle = <<0, 500>>
        /\ Len(result[1]) # Len(result[2]))
      => seen[1].distfail \/ seen[2].distfail

\* C9 (amended): with the same control points and tol_dist, the calls with
\* tol_angle = 0 and tol_angle = 0.5 return different lists (in
\* particular different numbers of vertices) only if some invocation of
\* the tol_angle = 0.5 call passes the distance test, so that the angle
\* test is evaluated there; if the distance test passes at no invocation,
\* the two lists are equal.
C9_DiffersOnlyIfAngleEvaluated ==
    (pc = "done" /\ Bezier /\ tol_angle = <<0, 500>>
        /\ result[1] # result[2])
      => seen[2].angleeval

\* C9 witness: the two calls returned different numbers of vertices
C9_Witness ==
    /\ pc = "done"
    /\ Bezier
    /\ tol_angle = <<0, 500>>
    /\ Len(result[1]) # Len(result[2])

\* the elements of a list come in the order of their parameter intervals
Ordered(list) ==
    \A i \in 1..Len(list) : \A j \in 1..Len(list) :
        i < j => \/ list[i].hi <= list[j].lo
                 \/ (list[i].lo = list[j].lo /\ list[i].hi = list[j].hi)

\* C10: in flatten3, flatten4 and flatten_arc the list a subdividing call
\* returns is the first half's list followed by the second half's, so in
\* every list held or returned each point produced for a parameter
\* sub-interval [a, b] precedes each point produced for [c, d] with
\* b <= c: the output is ordered by non-decreasing curve parameter.
C10_OrderPreserved ==
    /\ \A r \in 1..2 : Ordered(result[r])
    /\ \A i \in 1..Len(stack) :
          /\ Ordered(stack[i].left)
          /\ \A k \in 1..Len(stack[i].left) :
                stack[i].lo <= stack[i].left[k].lo /\ stack[i].left[k].hi <= stack[i].hi

\* C10 witness: a polyline with points of both halves has been returned
C10_Witness ==
    /\ pc = "done"
    /\ Len(result[1]) >= 4
    /\ result[1][2].hi <= result[1][3].lo

\* the first and the second half of a control polygon (de Casteljau)
FirstHalf(pts) ==
    IF Len(pts) = 3
    THEN <<pts[1], Mid(pts[1], pts[2]), Mid(Mid(pts[1], pts[2]), Mid(pts[2], pts[3]))>>
    ELSE <<pts[1], Mid(pts[1], pts[2]),
           Mid(Mid(pts[1], pts[2]), Mid(pts[2], pts[3])),
           Mid(Mid(Mid(pts[1], pts[2]), Mid(pts[2], pts[3])),
               Mid(Mid(pts[2], pts[3]), Mid(pts[3], pts[4])))>>

SecondHalf(pts) ==
    IF Len(pts) = 3
    THEN <<Mid(Mid(pts[1], pts[2]), Mid(pts[2], pts[3])), Mid(pts[2], pts[3]), pts[3]>>
    ELSE <<Mid(Mid(Mid(pts[1], pts[2]), Mid(pts[2], pts[3])),
               Mid(Mid(pts[2], pts[3]), Mid(pts[3], pts[4]))),
           Mid(Mid(pts[2], pts[3]), Mid(pts[3], pts[4])),
           Mid(pts[3], pts[4]), pts[4]>>

\* the control points of the sub-curve on the parameter interval [lo, hi]
\* of the curve with control points pts on [lo0, hi0]
RECURSIVE SubCurve(_, _, _, _, _)
SubCurve(pts, lo0, hi0, lo, hi) ==
    IF lo0 = lo /\ hi0 = hi THEN pts
    ELSE IF hi <= (lo0 + hi0) \div 2
    THEN SubCurve(FirstHalf(pts), lo0, (lo0 + hi0) \div 2, lo, hi)
    ELSE SubCurve(SecondHalf(pts), (lo0 + hi0) \div 2, hi0, lo, hi)

\* the distances (times |d|) of the inner control points of c from its chord
Deviations(c) ==
    [k \in 2..(Len(c) - 1) |->
        Abs(Cross(PSub(c[k], c[Len(c)]), PSub(c[Len(c)], c[1])))]

RegularCurve(c) ==
    \A k \in 2..(Len(c) - 1) : Deviations(c)[k] > CURVE_COLLINEARITY_EPSILON

\* dev / |d| <= tol / 2 for the chord d, all in units 1/Scale
WithinTolerance(dev, d, tol) ==
    BigLeq(BigMul(<<4>>, Prod(dev, dev)), Prod(tol * tol * Scale * Scale, Norm2(d)))

\* the point a regular call on c emits, and whether c is within tol
EmitsWithin(e, c, tol) ==
    /\ e.pt = Mid(c[2], c[Len(c) - 1])
          \/ (Len(c) = 3 /\ e.pt = Mid(Mid(c[1], c[2]), Mid(c[2], c[3])))
    /\ e.hi - e.lo >= 2
    /\ WithinTolerance(IF Len(c) = 3 THEN Deviations(c)[2]
                       ELSE Deviations(c)[2] + Deviations(c)[3],
                       PSub(c[Len(c)], c[1]), tol)

\* C11: every interior point that flatten3 or flatten4 returned for a
\* regular (non-collinear) sub-curve comes from a call at a level not above
\* the cap whose sub-curve is within tolerance of its chord:
\* dist^2 <= tol_dist^2 * |d|^2 for the quadratic and
\* (d2 + d3)^2 <= tol_dist^2 * |d|^2 for the cubic regular case, whatever
\* tol_angle is.  The sub-curve is recomputed from the segment and the
\* parameter interval of the point.
C11_EmittedWithinTolerance ==
    (pc = "done" /\ Bezier) =>
        \A r \in 1..2 : \A i \in 2..(Len(result[r]) - 1) :
            With(SubCurve(segment.pts, 0, BezOne, result[r][i].lo, result[r][i].hi),
                 LAMBDA c : RegularCurve(c) => EmitsWithin(result[r][i], c, tol_dist))

\* C11 witness: a point was returned for a regular sub-curve below the
\* top level, after the distance test had failed above it
C11_Witness ==
    /\ pc = "done"
    /\ Bezier
    /\ tol_dist > 0
    /\ seen[1].distfail
    /\ \E i \in 2..(Len(result[1]) - 1) :
          /\ result[1][i].hi - result[1][i].lo < BezOne
          /\ RegularCurve(SubCurve(segment.pts, 0, BezOne,
                                   result[1][i].lo, result[1][i].hi))

\* the case of flatten4 on the control points c
CaseOf(c) ==
    (IF Deviations(c)[2] > CURVE_COLLINEARITY_EPSILON THEN 2 ELSE 0)
    + (IF Deviations(c)[3] > CURVE_COLLINEARITY_EPSILON THEN 1 ELSE 0)

\* the invocation l of flatten4 ran case 1 or case 2
InCase12(l) ==
    /\ Len(l.pts) = 4
    /\ l.level <= CURVE_RECURSION_LIMIT
    /\ ~NormOverflows(PSub(l.pts[4], l.pts[1]))
    /\ CaseOf(l.pts) \in {1, 2}

\* the significant deviation of a case 1 / case 2 call passes the distance test
Case12Within(c, tol) ==
    WithinTolerance(IF CaseOf(c) = 1 THEN Deviations(c)[3] ELSE Deviations(c)[2],
                    PSub(c[4], c[1]), tol)

\* the turning angle of a case 1 / case 2 call is below ta
Case12Turn(c, ta) ==
    IF CaseOf(c) = 1
    THEN AngleLess(PSub(c[3], c[2]), PSub(c[4], c[3]), ta)
    ELSE AngleLess(PSub(c[2], c[1]), PSub(c[3], c[2]), ta)

Case12Decision(l, ta, tol) ==
    IF ~Case12Within(l.pts, tol) THEN l.op = "recurse"
    ELSE IF ta < CURVE_ANGLE_TOLERANCE_EPSILON
    THEN l.op = "return" /\ l.val = <<Mid(l.pts[2], l.pts[3])>>
    ELSE IF Case12Turn(l.pts, ta)
    THEN l.op = "return" /\ l.val = <<l.pts[2], l.pts[3]>>
    ELSE l.op = "recurse"

\* C12: an invocation of flatten4 in case 1 or case 2 (exactly one of d2,
\* d3 above CURVE_COLLINEARITY_EPSILON) whose significant deviation passes
\* the distance test returns [p23] if tol_angle < 0.01, returns [p2, p3]
\* if tol_angle >= 0.01 and the turning angle is below tol_angle, and
\* subdivides otherwise; if the distance test fails it subdivides.
C12_Case12Returns ==
    \A r \in 1..2 :
        With(seen[r].last, LAMBDA l :
            InCase12(l) => Case12Decision(l, tol_angle[r], tol_dist))

\* C12 witness: a case 1 / case 2 invocation returned [p2, p3]
C12_Witness ==
    /\ InCase12(seen[2].last)
    /\ tol_angle[2] >= CURVE_ANGLE_TOLERANCE_EPSILON
    /\ seen[2].last.op = "return"
    /\ seen[2].last.val = <<seen[2].last.pts[2], seen[2].last.pts[3]>>

ZeroRadius == segment.kind = "Arc" /\ segment.pts = PointArc

\* the midpoint of the subrange [lo, hi] of the arc is within tol (in
\* halves of a unit) of the chord of the subrange, which is not of length 0
SagittaWithin(arc, lo, hi, tol) ==
    /\ ArcPoint(arc, hi) # ArcPoint(arc, lo)
    /\ BigLeq(BigMul(<<4>>,
                 Prod(Cross(PSub(ArcPoint(arc, (lo + hi) \div 2), ArcPoint(arc, lo)),
                            PSub(ArcPoint(arc, hi), ArcPoint(arc, lo))),
                      Cross(PSub(ArcPoint(arc, (lo + hi) \div 2), ArcPoint(arc, lo)),
                            PSub(ArcPoint(arc, hi), ArcPoint(arc, lo))))),
              Prod(tol * tol * 1000 * 1000,
                   Norm2(PSub(ArcPoint(arc, hi), ArcPoint(arc, lo)))))

\* the list flatten_arc returned holds, for subranges that tile [0, 1] in
\* order, the midpoint of each, and each subrange passes the test
LeavesWithin(list, arc, tol) ==
    /\ Len(list) >= 3
    /\ list[2].lo = 0
    /\ list[Len(list) - 1].hi = ArcOne(arc)
    /\ \A i \in 2..(Len(list) - 1) :
          /\ list[i].lo < list[i].hi
          /\ list[i].pt = ArcPoint(arc, (list[i].lo + list[i].hi) \div 2)
          /\ SagittaWithin(arc, list[i].lo, list[i].hi, tol)
          /\ i > 2 => list[i - 1].hi = list[i].lo

\* every arc result is the list of midpoints of subranges within tolerance
ArcReturnsLeaves ==
    \A r \in ReturnedRuns :
        segment.kind = "Arc" => LeavesWithin(result[r], segment.pts, tol_dist)

\* C13 (as claimed): for an arc of zero radius no stopping condition of
\* flatten_arc ever fires: the recursion goes on, nothing is returned and
\* nothing is raised; and any arc result is returned only when every
\* bisection path has come within tol_dist, with [pmid] for each subrange.
C13_ZeroRadiusRecursesForever ==
    /\ ZeroRadius => pc \in {"call", "flatten_arc"} /\ error = "" /\ result = <<<<>>, <<>>>>
    /\ ArcReturnsLeaves

\* C13 (amended): for an arc of zero radius the first invocation of
\* flatten_arc divides by abs(p2 - p1) = 0 and raises ZeroDivisionError:
\* nothing is returned and there is no recursive call; and any arc result
\* is returned only when every bisection path has come within tol_dist,
\* with [pmid] for each subrange.
C13_ZeroRadiusRaises ==
    /\ ZeroRadius =>
          /\ pc \in {"call", "flatten_arc", "raised"}
          /\ pc = "raised" <=> error = "ZeroDivisionError"
          /\ pc = "flatten_arc" => calls[1] = 0
          /\ result = <<<<>>, <<>>>>
          /\ Len(stack) <= 1
          /\ calls[1] <= 1 /\ calls[2] = 0
    /\ ArcReturnsLeaves

\* C13 witness: flatten_arc was called on the arc of zero radius and raised
C13_Witness ==
    /\ ZeroRadius
    /\ pc = "raised"
    /\ error = "ZeroDivisionError"
    /\ calls[1] = 1

====
